---------------------------- MODULE Spec2Model ----------------------------
(***************************************************************************)
(* Reference names of radicle-git: the validated name types RefLike,       *)
(* OneLevel, Qualified and RefspecPattern (radicle-git-ext,                *)
(* reference/name.rs), the scoped Reference and SymbolicRef                *)
(* (radicle-git-types, reference.rs).                                      *)
(*                                                                         *)
(* A name is a TLA+ string, i.e. a sequence of characters: Len, \o and     *)
(* SubSeq act on it character by character, as the Rust code acts on the   *)
(* bytes of its String.                                                    *)
(***************************************************************************)
EXTENDS Naturals, Sequences, FiniteSets, TLC

(***************************************************************************)
(* Bounds of the model.                                                    *)
(***************************************************************************)
\* The validator's length limit (1024 bytes in the program), scaled down.
NameLimit == 24

\* The caller takes or keeps the results of at most MaxOps operations.
MaxOps == 2

(***************************************************************************)
(* Text helpers: str::starts_with, str::ends_with, str::contains,          *)
(* str::split and [T]::join of the Rust standard library.                  *)
(***************************************************************************)
StartsWith(s, p) == Len(s) >= Len(p) /\ SubSeq(s, 1, Len(p)) = p

EndsWith(s, p) == Len(s) >= Len(p) /\ SubSeq(s, Len(s) - Len(p) + 1, Len(s)) = p

Contains(s, p) ==
    \E i \in 1..(Len(s) + 1) :
        i + Len(p) - 1 <= Len(s) /\ SubSeq(s, i, i + Len(p) - 1) = p

CharAt(s, i) == SubSeq(s, i, i)

CountChar(s, c) == Cardinality({i \in 1..Len(s) : CharAt(s, i) = c})

\* The position, from i on, of the first occurrence of the character c in s;
\* 0 if there is none.
RECURSIVE IndexFrom(_, _, _)
IndexFrom(s, c, i) ==
    IF i > Len(s) THEN 0
    ELSE IF CharAt(s, i) = c THEN i
    ELSE IndexFrom(s, c, i + 1)

FirstIndex(s, c) == IndexFrom(s, c, 1)

\* s.split(c): the pieces between the occurrences of c; "" splits to <<"">>.
RECURSIVE Split(_, _)
Split(s, c) ==
    LET i == FirstIndex(s, c) IN
    IF i = 0 THEN <<s>>
    ELSE <<SubSeq(s, 1, i - 1)>> \o Split(SubSeq(s, i + 1, Len(s)), c)

\* pieces.join(c)
RECURSIVE JoinWith(_, _)
JoinWith(pieces, c) ==
    IF pieces = <<>> THEN ""
    ELSE IF Len(pieces) = 1 THEN pieces[1]
    ELSE pieces[1] \o c \o JoinWith(Tail(pieces), c)

\* iter.skip(n)
Skip(pieces, n) ==
    IF Len(pieces) <= n THEN <<>> ELSE SubSeq(pieces, n + 1, Len(pieces))

\* Option<T>: None is <<>>, Some(t) is <<t>>.
None == <<>>

Some(t) == <<t>>


(***************************************************************************)
(* The grammar validator check::ref_format (reference/check.rs), after     *)
(* git-check-ref-format.  It answers "Ok" or the kind of the violation.    *)
(***************************************************************************)
\* Characters no name may hold: space ~ ^ : ? [ \ and the control bytes
\* (tab and newline stand for them).  '*' is dealt with by allow_pattern.
ForbiddenChars == {" ", "~", "^", ":", "?", "[", "\\", "\t", "\n"}

\* One '/'-delimited segment obeys the component rules.
ValidComponent(seg) ==
    /\ seg # ""
    /\ ~StartsWith(seg, ".")
    /\ ~EndsWith(seg, ".lock")
    /\ ~Contains(seg, "..")
    /\ \A i \in 1..Len(seg) : CharAt(seg, i) \notin ForbiddenChars

ref_format(allow_onelevel, allow_pattern, s) ==
    LET segs == Split(s, "/") IN
    IF s = "" THEN "Empty"
    ELSE IF Len(s) > NameLimit THEN "TooLong"
    ELSE IF \E k \in 1..Len(segs) : ~ValidComponent(segs[k]) THEN "InvalidComponent"
    ELSE IF EndsWith(s, ".") \/ Contains(s, "@{") THEN "InvalidComponent"
    ELSE IF ~allow_pattern /\ CountChar(s, "*") > 0 THEN "InvalidComponent"
    ELSE IF allow_pattern /\ CountChar(s, "*") > 1 THEN "MultiplePatterns"
    ELSE IF ~allow_onelevel /\ CountChar(s, "/") = 0 THEN "OneLevelNotAllowed"
    ELSE "Ok"

(***************************************************************************)
(* RefLike (reference/name.rs).  A fallible operation answers a record     *)
(* [ok, val, err]: Ok(val), or Err(err) with val = "".                     *)
(***************************************************************************)
Ok(v) == [ok |-> TRUE, val |-> v, err |-> "none"]

Err(e) == [ok |-> FALSE, val |-> "", err |-> e]

\* impl TryFrom<&str> for RefLike
RefLike_try_from(s) ==
    LET r == ref_format(TRUE, FALSE, s) IN
    IF r = "Ok" THEN Ok(s) ELSE Err(r)

\* A path component is Normal: neither empty (a repeated or trailing
\* separator, the root), nor the current directory, nor the parent directory.
IsNormal(comp) == comp \notin {"", ".", ".."}

\* p.components().filter_map(Normal): the normal components of a path,
\* written here with '/' as the host's separator.
NormalComponents(p) == SelectSeq(Split(p, "/"), IsNormal)

\* impl TryFrom<&Path> for RefLike.  The windows build validates the normal
\* components joined by '/', the unix build the path's text as it is; utf8
\* says that the text decodes as UTF-8.
RefLike_try_from_Path(family, p, utf8) ==
    IF family = "windows"
    THEN IF ~utf8 THEN Err("Utf8")
         ELSE RefLike_try_from(JoinWith(NormalComponents(p), "/"))
    ELSE IF ~utf8 THEN Err("Utf8")
         ELSE RefLike_try_from(p)

\* RefLike::join
RefLike_join(self, other) == self \o "/" \o other

\* RefLike::with_pattern_suffix
RefLike_with_pattern_suffix(self, suf) == self \o "/" \o suf

\* As RefLike::strip_prefix, but matching base without the '/' after it.
RefLike_strip_prefix_NoSlash(self, base) ==
    LET b == IF EndsWith(base, "/")
             THEN SubSeq(base, 1, Len(base) - 1) ELSE base
    IN  IF ~StartsWith(self, b) THEN Err("NotPrefix")
        ELSE LET path == SubSeq(self, Len(b) + 1, Len(self)) IN
             IF path = "" THEN Err("ImproperPrefix") ELSE Ok(path)

\* RefLike::strip_prefix
RefLike_strip_prefix(self, base) ==
    LET stripped == IF EndsWith(base, "/")
                    THEN SubSeq(base, 1, Len(base) - 1) ELSE base
        b == stripped \o "/"
    IN  IF ~StartsWith(self, b) THEN Err("NotPrefix")
        ELSE LET path == SubSeq(self, Len(b) + 1, Len(self)) IN
             IF path = "" THEN Err("ImproperPrefix") ELSE Ok(path)

(***************************************************************************)
(* OneLevel and Qualified (reference/name.rs).                             *)
(***************************************************************************)
\* As OneLevel::from, but dropping the "refs" segment alone.
OneLevel_from_RefLike_SkipOne(path) ==
    IF StartsWith(path, "refs/")
    THEN JoinWith(Skip(Split(path, "/"), 1), "/")
    ELSE path

\* impl From<RefLike> for OneLevel
OneLevel_from_RefLike(path) ==
    IF StartsWith(path, "refs/")
    THEN JoinWith(Skip(Split(path, "/"), 2), "/")
    ELSE path

\* As Qualified::from, but prefixing "refs/" without the default category.
Qualified_from_RefLike_NoHeads(path) ==
    IF StartsWith(path, "refs/") THEN path ELSE "refs/" \o path

\* impl From<RefLike> for Qualified
Qualified_from_RefLike(path) ==
    IF StartsWith(path, "refs/") THEN path ELSE "refs/heads/" \o path

\* impl From<Qualified> for OneLevel
OneLevel_from_Qualified(path) == OneLevel_from_RefLike(path)

\* As Qualified::from(OneLevel), but keeping the text as it is.
Qualified_from_OneLevel_Verbatim(path) == path

\* impl From<OneLevel> for Qualified
Qualified_from_OneLevel(path) == Qualified_from_RefLike(path)

\* impl From<OneLevel> for RefLike
RefLike_from_OneLevel(path) == path

\* impl From<Qualified> for RefLike
RefLike_from_Qualified(path) == path

\* As OneLevel::from_qualified, but without the check that the category is
\* not the only component of the path.
OneLevel_from_qualified_Unchecked(path) ==
    LET rest == IF StartsWith(path, "refs/")
                THEN SubSeq(path, Len("refs/") + 1, Len(path)) ELSE path
        segs == Split(rest, "/")
    IN  [name |-> JoinWith(Skip(segs, 1), "/"), category |-> Some(segs[1])]

\* OneLevel::from_qualified: the pair (OneLevel, Option<RefLike>).  The
\* category alone is converted with OneLevel::from.
OneLevel_from_qualified(path) ==
    LET rest == IF StartsWith(path, "refs/")
                THEN SubSeq(path, Len("refs/") + 1, Len(path)) ELSE path
        segs == Split(rest, "/")
        category == segs[1]
    IN  IF Len(segs) >= 2
        THEN [name |-> JoinWith(Skip(segs, 1), "/"), category |-> Some(category)]
        ELSE [name |-> OneLevel_from_RefLike(category), category |-> None]

\* As OneLevel::into_qualified, but joining category and name alone.
OneLevel_into_qualified_Bare(self, category) == category \o "/" \o self

\* OneLevel::into_qualified: format!("refs/{}/{}", category, self)
OneLevel_into_qualified(self, category) ==
    "refs/" \o category \o "/" \o self

\* serde(try_from = "String") on RefLike: the text is validated.
RefLike_deserialize(s) == RefLike_try_from(s)

\* As the deserialization of Qualified, but taking the validated text as
\* it is.
Qualified_deserialize_Verbatim(s) == RefLike_deserialize(s)

\* serde(try_from = "RefLike") on Qualified: a RefLike is deserialized and
\* converted with Qualified::from.
Qualified_deserialize(s) ==
    LET r == RefLike_deserialize(s) IN
    IF r.ok THEN Ok(Qualified_from_RefLike(r.val)) ELSE r

\* serde(try_from = "RefLike") on OneLevel: a RefLike is deserialized and
\* converted with OneLevel::from.
OneLevel_deserialize(s) ==
    LET r == RefLike_deserialize(s) IN
    IF r.ok THEN Ok(OneLevel_from_RefLike(r.val)) ELSE r

(***************************************************************************)
(* RefspecPattern (reference/name.rs).                                     *)
(***************************************************************************)
\* impl TryFrom<&str> for RefspecPattern
RefspecPattern_try_from(s) ==
    LET r == ref_format(TRUE, TRUE, s) IN
    IF r = "Ok" THEN Ok(s) ELSE Err(r)

\* RefspecPattern::append
RefspecPattern_append(self, refl) == self \o "/" \o refl

\* impl From<RefLike>, From<OneLevel>, From<Qualified> for RefspecPattern
RefspecPattern_from(path) == path

(***************************************************************************)
(* RefsCategory and Reference (radicle-git-types, reference.rs).           *)
(* A category is [kind, name]: name is the wrapped RefLike of Unknown and  *)
(* "" for the five literal categories.                                     *)
(***************************************************************************)
Category(kind) == [kind |-> kind, name |-> ""]

Unknown(r) == [kind |-> "Unknown", name |-> r]

\* As RefsCategory::from_str, but without the literal "cobs".
RefsCategory_from_str_NoCobs(s) ==
    CASE s = "heads" -> Ok(Category("Heads"))
      [] s = "rad"   -> Ok(Category("Rad"))
      [] s = "tags"  -> Ok(Category("Tags"))
      [] s = "notes" -> Ok(Category("Notes"))
      [] OTHER -> LET reflike == RefLike_try_from(s) IN
                  IF reflike.ok THEN Ok(Unknown(reflike.val)) ELSE Err(reflike.err)

\* impl FromStr for RefsCategory
RefsCategory_from_str(s) ==
    CASE s = "heads" -> Ok(Category("Heads"))
      [] s = "rad"   -> Ok(Category("Rad"))
      [] s = "tags"  -> Ok(Category("Tags"))
      [] s = "notes" -> Ok(Category("Notes"))
      [] s = "cobs"  -> Ok(Category("Cobs"))
      [] OTHER -> LET reflike == RefLike_try_from(s) IN
                  IF reflike.ok THEN Ok(Unknown(reflike.val)) ELSE Err(reflike.err)

\* impl Display for RefsCategory
RefsCategory_to_string(cat) ==
    CASE cat.kind = "Heads" -> "heads"
      [] cat.kind = "Rad"   -> "rad"
      [] cat.kind = "Tags"  -> "tags"
      [] cat.kind = "Notes" -> "notes"
      [] cat.kind = "Cobs"  -> "cobs"
      [] OTHER -> cat.name

\* impl From<&RefLike> for RefsCategory
RefsCategory_from_RefLike(r) ==
    CASE r = "heads" -> Category("Heads")
      [] r = "rad"   -> Category("Rad")
      [] r = "tags"  -> Category("Tags")
      [] r = "notes" -> Category("Notes")
      [] r = "cobs"  -> Category("Cobs")
      [] OTHER -> Unknown(r)

\* impl From<&RefsCategory> for RefLike: try_from(cat.to_string()).unwrap(),
\* which panics where the text does not validate.
RefLike_from_RefsCategory(cat) ==
    LET r == RefLike_try_from(RefsCategory_to_string(cat)) IN
    IF r.ok THEN r ELSE Err("panic")

\* Reference { remote, category, name, namespace }
Reference(namespace, remote, category, name) ==
    [namespace |-> namespace, remote |-> remote, category |-> category, name |-> name]

\* As ReferenceScope, but without the "refs" that follows the namespace.
ReferenceScope_NoInnerRefs(r) ==
    LET refl0 == "refs"
        refl1 == IF r.namespace # None
                 THEN RefLike_join(RefLike_join(refl0, "namespaces"), r.namespace[1])
                 ELSE refl0
    IN  IF r.remote # None
        THEN RefLike_join(RefLike_join(refl1, "remotes"), r.remote[1])
        ELSE refl1

\* The scoping prefix both renderings share: reflike!("refs"), then
\* namespaces/<namespace>/refs and remotes/<remote> where present.
ReferenceScope(r) ==
    LET refl0 == "refs"
        refl1 == IF r.namespace # None
                 THEN RefLike_join(RefLike_join(RefLike_join(refl0, "namespaces"),
                                                r.namespace[1]), "refs")
                 ELSE refl0
    IN  IF r.remote # None
        THEN RefLike_join(RefLike_join(refl1, "remotes"), r.remote[1])
        ELSE refl1

\* impl From<&Reference<N, R, One>> for RefLike
RefLike_from_Reference(r) ==
    LET cat == RefLike_from_RefsCategory(r.category) IN
    IF ~cat.ok THEN cat
    ELSE Ok(RefLike_join(RefLike_join(ReferenceScope(r), cat.val),
                         RefLike_from_OneLevel(OneLevel_from_RefLike(r.name))))

\* As the rendering of a Reference<N, R, Many>, but collapsing the name as
\* the rendering of a Reference<N, R, One> does.
RefspecPattern_from_Reference_Collapsed(r) ==
    LET cat == RefLike_from_RefsCategory(r.category) IN
    IF ~cat.ok THEN cat
    ELSE Ok(RefLike_with_pattern_suffix(RefLike_join(ReferenceScope(r), cat.val),
                                        OneLevel_from_RefLike(r.name)))

\* impl From<&Reference<N, R, Many>> for RefspecPattern
RefspecPattern_from_Reference(r) ==
    LET cat == RefLike_from_RefsCategory(r.category) IN
    IF ~cat.ok THEN cat
    ELSE Ok(RefLike_with_pattern_suffix(RefLike_join(ReferenceScope(r), cat.val),
                                        r.name))

(***************************************************************************)
(* The name algebra as a state machine.  A caller holds two name values,   *)
(* cur and other, each of one of the four types.  It applies a public      *)
(* operation to them, which leaves its result in res, and then takes the   *)
(* result as its current value, keeps it as the operand of a later         *)
(* operation, or, where the operation failed, discards it.  ops counts the  *)
(* results taken or kept.                                                  *)
(***************************************************************************)
VARIABLES cur, other, res, ops

nameVars == <<cur, other, res, ops>>

\* The repository and the call under way on it (described further down).
VARIABLES refs, reflogs, pc, sym, calls, before, ret

repoVars == <<refs, reflogs, pc, sym, calls, before, ret>>

\* The iterator over the references the engine enumerates (described further
\* down).
VARIABLES iterator, references, current, trace

iterVars == <<iterator, references, current, trace>>

Val(ty, text) == [ty |-> ty, text |-> text]

\* The result of operation op on cur (and other, and args): a value of type
\* ty with text out, or the error err; also is the second component of a
\* pair, for the one operation that returns a pair.
Res(op, ty, args, r) ==
    [op |-> op, ty |-> ty, args |-> args, out |-> r.val, err |-> r.err,
     also |-> None]

NoRes ==
    [op |-> "none", ty |-> "none", args |-> <<>>, out |-> "", err |-> "none",
     also |-> None]

\* Text handed to the validated constructors, valid and invalid.
RefLikeTexts ==
    { "refs", "mistress", "refs/HEAD", "refsx/a/b", "refs/heads/next",
      "refs/remotes/origin/it", "feature/x", "refs/heads/refs/x",
      "", "x/", "a//b", "a..b", "refs/heads/*",
      "refs/namespaces/ns/refs/rad/id" }

PatternTexts == { "*", "ids/*", "refs/heads", "*/*", "refs/*/x/*", "", "a//*" }

\* Text handed to RefsCategory::from_str.
CategoryTexts == { "heads", "wip", "x/y", "" }

\* Text parsed as a category: the five literals, and text that is none.
FromStrTexts == CategoryTexts \cup { "rad", "tags", "notes", "cobs", "Heads", "a..b" }

\* Serialized text handed to the deserializers of Qualified and OneLevel.
SerializedTexts == { "x", "refs/heads/x", "refs/HEAD", "x/", "refs/heads/*" }

\* Paths handed to RefLike::try_from(&Path).
PathTexts == { "a/b", "a/./b", "a/../b", "./a", "a//b", "..", "a b/c" }

\* cfg(target_family): the builds of RefLike::try_from(&Path).
TargetFamilies == { "unix", "windows" }

\* Bases handed to strip_prefix beside the other value: any text will do.
StripBases == { "refs", "refs/", "refs/he", "unrelated", "" }

Namespaces == { None, Some("ns") }

Remotes == { None, Some("peer") }

\* Text of the categories of the references rendered.
RenderCategoryTexts == { "heads", "x/y" }

\* The four types of name values.
NameTypes == { "RefLike", "OneLevel", "Qualified", "RefspecPattern" }

\* The types that convert into RefLike (Into<RefLike>).
IntoRefLike == { "RefLike", "OneLevel", "Qualified" }

NameInit ==
    /\ cur = Val("RefLike", "refs")
    /\ other = Val("RefLike", "refs")
    /\ res = NoRes
    /\ ops = 0

\* RefLike::try_from(s)
TryFrom(s) ==
    /\ res = NoRes
    /\ res' = Res("try_from", "RefLike", <<s>>, RefLike_try_from(s))
    /\ UNCHANGED <<cur, other, ops, repoVars, iterVars>>

\* RefLike::try_from(p), p a Path, in the build for family
PathTryFrom(family, p, utf8) ==
    /\ res = NoRes
    /\ res' = Res("path_try_from", "RefLike", <<family, p, utf8>>,
                  RefLike_try_from_Path(family, p, utf8))
    /\ UNCHANGED <<cur, other, ops, repoVars, iterVars>>

\* RefspecPattern::try_from(s)
PatternTryFrom(s) ==
    /\ res = NoRes
    /\ res' = Res("pattern_try_from", "RefspecPattern", <<s>>, RefspecPattern_try_from(s))
    /\ UNCHANGED <<cur, other, ops, repoVars, iterVars>>

\* cur.join(other)
Join ==
    /\ res = NoRes
    /\ cur.ty = "RefLike"
    /\ other.ty \in IntoRefLike
    /\ res' = Res("join", "RefLike", <<>>, Ok(RefLike_join(cur.text, other.text)))
    /\ UNCHANGED <<cur, other, ops, repoVars, iterVars>>

\* cur.strip_prefix(base)
StripPrefix(base) ==
    /\ res = NoRes
    /\ cur.ty = "RefLike"
    /\ res' = Res("strip_prefix", "RefLike", <<base>>, RefLike_strip_prefix(cur.text, base))
    /\ UNCHANGED <<cur, other, ops, repoVars, iterVars>>

\* OneLevel::from(cur)
ToOneLevel ==
    /\ res = NoRes
    /\ cur.ty \in {"RefLike", "Qualified"}
    /\ res' = Res("one_level_from", "OneLevel", <<>>,
                  Ok(IF cur.ty = "RefLike" THEN OneLevel_from_RefLike(cur.text)
                     ELSE OneLevel_from_Qualified(cur.text)))
    /\ UNCHANGED <<cur, other, ops, repoVars, iterVars>>

\* Qualified::from(cur)
ToQualified ==
    /\ res = NoRes
    /\ cur.ty \in {"RefLike", "OneLevel"}
    /\ res' = Res("qualified_from", "Qualified", <<>>,
                  Ok(IF cur.ty = "RefLike" THEN Qualified_from_RefLike(cur.text)
                     ELSE Qualified_from_OneLevel(cur.text)))
    /\ UNCHANGED <<cur, other, ops, repoVars, iterVars>>

\* RefLike::from(cur)
ToRefLike ==
    /\ res = NoRes
    /\ cur.ty \in {"OneLevel", "Qualified"}
    /\ res' = Res("ref_like_from", "RefLike", <<>>,
                  Ok(IF cur.ty = "OneLevel" THEN RefLike_from_OneLevel(cur.text)
                     ELSE RefLike_from_Qualified(cur.text)))
    /\ UNCHANGED <<cur, other, ops, repoVars, iterVars>>

\* OneLevel::from_qualified(cur)
FromQualified ==
    LET pair == OneLevel_from_qualified(cur.text) IN
    /\ res = NoRes
    /\ cur.ty = "Qualified"
    /\ res' = [Res("from_qualified", "OneLevel", <<>>, Ok(pair.name))
                  EXCEPT !.also = pair.category]
    /\ UNCHANGED <<cur, other, ops, repoVars, iterVars>>

\* cur.into_qualified(other)
IntoQualified ==
    /\ res = NoRes
    /\ cur.ty = "OneLevel"
    /\ other.ty = "RefLike"
    /\ res' = Res("into_qualified", "Qualified", <<>>,
                  Ok(OneLevel_into_qualified(cur.text, other.text)))
    /\ UNCHANGED <<cur, other, ops, repoVars, iterVars>>

\* Qualified::deserialize, of the text s
DeserializeQualified(s) ==
    /\ res = NoRes
    /\ res' = Res("deserialize_qualified", "Qualified", <<s>>, Qualified_deserialize(s))
    /\ UNCHANGED <<cur, other, ops, repoVars, iterVars>>

\* OneLevel::deserialize, of the text s
DeserializeOneLevel(s) ==
    /\ res = NoRes
    /\ res' = Res("deserialize_one_level", "OneLevel", <<s>>, OneLevel_deserialize(s))
    /\ UNCHANGED <<cur, other, ops, repoVars, iterVars>>

\* RefspecPattern::from(cur)
ToPattern ==
    /\ res = NoRes
    /\ cur.ty \in IntoRefLike
    /\ res' = Res("pattern_from", "RefspecPattern", <<>>, Ok(RefspecPattern_from(cur.text)))
    /\ UNCHANGED <<cur, other, ops, repoVars, iterVars>>

\* As WithPatternSuffix, but offered by RefspecPattern as well as by RefLike.
WithPatternSuffix_OnPattern ==
    /\ res = NoRes
    /\ cur.ty \in {"RefLike", "RefspecPattern"}
    /\ res' = Res("with_pattern_suffix", "RefspecPattern", <<>>,
                  Ok(RefLike_with_pattern_suffix(cur.text, RefspecPattern_from(other.text))))
    /\ UNCHANGED <<cur, other, ops, repoVars, iterVars>>

\* cur.with_pattern_suffix(other)
WithPatternSuffix ==
    /\ res = NoRes
    /\ cur.ty = "RefLike"
    /\ res' = Res("with_pattern_suffix", "RefspecPattern", <<>>,
                  Ok(RefLike_with_pattern_suffix(cur.text, RefspecPattern_from(other.text))))
    /\ UNCHANGED <<cur, other, ops, repoVars, iterVars>>

\* cur.append(other)
PatternAppend ==
    /\ res = NoRes
    /\ cur.ty = "RefspecPattern"
    /\ other.ty \in IntoRefLike
    /\ res' = Res("append", "RefspecPattern", <<>>,
                  Ok(RefspecPattern_append(cur.text, other.text)))
    /\ UNCHANGED <<cur, other, ops, repoVars, iterVars>>

\* s.parse::<RefsCategory>()
ParseCategory(s) ==
    /\ res = NoRes
    /\ res' = Res("category_from_str", "RefsCategory", <<s>>, RefsCategory_from_str(s))
    /\ UNCHANGED <<cur, other, ops, repoVars, iterVars>>

\* category.to_string(), of the category just parsed
CategoryToString ==
    /\ res.op = "category_from_str"
    /\ res.err = "none"
    /\ res' = Res("category_to_string", "String", <<res.out>>,
                  Ok(RefsCategory_to_string(res.out)))
    /\ UNCHANGED <<cur, other, ops, repoVars, iterVars>>

\* RefLike::from(category), the category parsed from the text s
FromCategory(s) ==
    LET cat == RefsCategory_from_str(s) IN
    /\ res = NoRes
    /\ cat.ok
    /\ res' = Res("from_category", "RefLike", <<cat.val>>, RefLike_from_RefsCategory(cat.val))
    /\ UNCHANGED <<cur, other, ops, repoVars, iterVars>>

\* RefLike::from(&Reference { namespace, remote, category, name: cur })
RenderOne(namespace, remote, s) ==
    LET cat == RefsCategory_from_str(s) IN
    /\ res = NoRes
    /\ cur.ty = "RefLike"
    /\ cat.ok
    /\ res' = Res("render_one", "RefLike", <<namespace, remote, cat.val>>,
                  RefLike_from_Reference(Reference(namespace, remote, cat.val, cur.text)))
    /\ UNCHANGED <<cur, other, ops, repoVars, iterVars>>

\* RefspecPattern::from(&Reference { namespace, remote, category, name: cur })
RenderMany(namespace, remote, s) ==
    LET cat == RefsCategory_from_str(s) IN
    /\ res = NoRes
    /\ cur.ty = "RefspecPattern"
    /\ cat.ok
    /\ res' = Res("render_many", "RefspecPattern", <<namespace, remote, cat.val>>,
                  RefspecPattern_from_Reference(Reference(namespace, remote, cat.val, cur.text)))
    /\ UNCHANGED <<cur, other, ops, repoVars, iterVars>>

\* The caller goes on with the result as its current value.
Take ==
    /\ res # NoRes
    /\ res.err = "none"
    /\ res.ty \in NameTypes
    /\ ops < MaxOps
    /\ cur' = Val(res.ty, res.out)
    /\ res' = NoRes
    /\ ops' = ops + 1
    /\ UNCHANGED <<other, repoVars, iterVars>>

\* The caller keeps the result as the operand of a later operation.
Keep ==
    /\ res # NoRes
    /\ res.err = "none"
    /\ res.ty \in NameTypes
    /\ ops < MaxOps
    /\ other' = Val(res.ty, res.out)
    /\ res' = NoRes
    /\ ops' = ops + 1
    /\ UNCHANGED <<cur, repoVars, iterVars>>

\* The caller drops the error of a failed operation.
Discard ==
    /\ res # NoRes
    /\ res.err # "none"
    /\ res' = NoRes
    /\ UNCHANGED <<cur, other, ops, repoVars, iterVars>>

NameNext ==
    \/ \E s \in RefLikeTexts : TryFrom(s)
    \/ \E s \in PatternTexts : PatternTryFrom(s)
    \/ Join
    \/ \E base \in StripBases \cup {other.text} : StripPrefix(base)
    \/ ToOneLevel
    \/ ToQualified
    \/ ToRefLike
    \/ FromQualified
    \/ IntoQualified
    \/ ToPattern
    \/ WithPatternSuffix
    \/ PatternAppend
    \/ \E s \in CategoryTexts : FromCategory(s)
    \/ \E ns \in Namespaces, rm \in Remotes, s \in RenderCategoryTexts : RenderOne(ns, rm, s)
    \/ \E ns \in Namespaces, rm \in Remotes, s \in RenderCategoryTexts : RenderMany(ns, rm, s)
    \/ Take
    \/ Keep
    \/ Discard

\* The constructors that take their input from outside the program: a path,
\* serialized text, the text of a category.
InputNext ==
    \/ \E family \in TargetFamilies, p \in PathTexts, utf8 \in BOOLEAN :
          PathTryFrom(family, p, utf8)
    \/ \E s \in SerializedTexts : DeserializeQualified(s)
    \/ \E s \in SerializedTexts : DeserializeOneLevel(s)
    \/ \E s \in FromStrTexts : ParseCategory(s)
    \/ CategoryToString
    \/ Take
    \/ Keep
    \/ Discard

(***************************************************************************)
(* The repository engine (git2::Repository) as SymbolicRef::create and     *)
(* Reference::create use it: the references, each absent, direct (an       *)
(* object id) or symbolic (another name), and the names that have a        *)
(* reflog.                                                                 *)
(***************************************************************************)
Absent == [kind |-> "absent", to |-> ""]

Direct(oid) == [kind |-> "direct", to |-> oid]

Symbolic(name) == [kind |-> "symbolic", to |-> name]

\* The references the callers name.
RepoReferences ==
    { Reference(None, None, Category("Heads"), "next"),
      Reference(None, Some("peer"), Category("Heads"), "next"),
      Reference(Some("ns"), None, Category("Rad"), "id") }

RepoNames == { RefLike_from_Reference(r).val : r \in RepoReferences }

Oids == { "oid1" }

RefValues == {Absent} \cup {Direct(o) : o \in Oids} \cup {Symbolic(n) : n \in RepoNames}

\* The engine follows at most this many symbolic references when it resolves.
MaxNesting == 3

\* repo.refname_to_id(name): the object id name resolves to, through
\* symbolic references; NotFound where the chain ends at no reference.
RECURSIVE ResolveIn(_, _, _)
ResolveIn(rs, name, depth) ==
    IF name \notin DOMAIN rs \/ rs[name].kind = "absent" THEN Err("NotFound")
    ELSE IF rs[name].kind = "direct" THEN Ok(rs[name].to)
    ELSE IF depth = 0 THEN Err("Other")
    ELSE ResolveIn(rs, rs[name].to, depth - 1)

refname_to_id(rs, name) == ResolveIn(rs, name, MaxNesting)

\* repo.reference_symbolic(name, target, force, msg): the references after
\* the call and its error; the name is written unless it exists and force
\* is false.
reference_symbolic(rs, name, target, force) ==
    IF rs[name].kind # "absent" /\ ~force
    THEN [refs |-> rs, err |-> "Exists"]
    ELSE [refs |-> [rs EXCEPT ![name] = Symbolic(target)], err |-> "none"]

\* repo.reference(name, id, force, log_message): the references after the
\* call and its error; the name is written unless it exists and force is
\* false.
reference(rs, name, id, force) ==
    IF rs[name].kind # "absent" /\ ~force
    THEN [refs |-> rs, err |-> "Exists"]
    ELSE [refs |-> [rs EXCEPT ![name] = Direct(id)], err |-> "none"]

NoSym == [source |-> "", target |-> "", force |-> FALSE]

\* No call is under way; the repository holds nothing.
RepoIdle ==
    /\ refs = [n \in RepoNames |-> Absent]
    /\ reflogs = {}
    /\ pc = "idle"
    /\ sym = NoSym
    /\ calls = <<>>
    /\ before = [refs |-> refs, reflogs |-> reflogs]
    /\ ret = "none"

\* No call is under way; the repository is in any state.
RepoInit ==
    /\ refs \in [RepoNames -> RefValues]
    /\ reflogs \in SUBSET RepoNames
    /\ pc = "idle"
    /\ sym = NoSym
    /\ calls = <<>>
    /\ before = [refs |-> refs, reflogs |-> reflogs]
    /\ ret = "none"

\* SymbolicRef { source, target, force }.create(repo) is called: source and
\* target are rendered.
SymCreateCall(source, target, force) ==
    /\ pc = "idle"
    /\ sym' = [source |-> RefLike_from_Reference(source).val,
               target |-> RefLike_from_Reference(target).val,
               force |-> force]
    /\ before' = [refs |-> refs, reflogs |-> reflogs]
    /\ calls' = <<>>
    /\ pc' = "resolve"
    /\ UNCHANGED <<refs, reflogs, ret, nameVars, iterVars>>

\* As SymCreateResolve, but going on where the target does not resolve.
SymCreateResolve_NoReturn ==
    /\ pc = "resolve"
    /\ calls' = Append(calls, <<"refname_to_id", sym.target>>)
    /\ pc' = "ensure_log"
    /\ UNCHANGED <<refs, reflogs, sym, before, ret, nameVars, iterVars>>

\* let _ = repo.refname_to_id(target.as_str())?;
SymCreateResolve ==
    /\ pc = "resolve"
    /\ calls' = Append(calls, <<"refname_to_id", sym.target>>)
    /\ LET r == refname_to_id(refs, sym.target) IN
       IF r.ok THEN pc' = "ensure_log" /\ UNCHANGED ret
       ELSE pc' = "done" /\ ret' = r.err
    /\ UNCHANGED <<refs, reflogs, sym, before, nameVars, iterVars>>

\* repo.reference_ensure_log(source.as_str())?;  the engine may fail.
SymCreateEnsureLog ==
    /\ pc = "ensure_log"
    /\ calls' = Append(calls, <<"reference_ensure_log", sym.source>>)
    /\ \E fails \in BOOLEAN :
          IF fails THEN pc' = "done" /\ ret' = "Other" /\ UNCHANGED reflogs
          ELSE pc' = "write" /\ reflogs' = reflogs \cup {sym.source} /\ UNCHANGED ret
    /\ UNCHANGED <<refs, sym, before, nameVars, iterVars>>

\* As SymCreateWrite, but always forcing the write.
SymCreateWrite_Forced ==
    /\ pc = "write"
    /\ calls' = Append(calls, <<"reference_symbolic", sym.source>>)
    /\ LET w == reference_symbolic(refs, sym.source, sym.target, TRUE) IN
       /\ refs' = w.refs
       /\ ret' = IF w.err = "none" THEN "Ok" ELSE w.err
    /\ pc' = "done"
    /\ UNCHANGED <<reflogs, sym, before, nameVars, iterVars>>

\* repo.reference_symbolic(source, target, force, reflog_msg)
SymCreateWrite ==
    /\ pc = "write"
    /\ calls' = Append(calls, <<"reference_symbolic", sym.source>>)
    /\ LET w == reference_symbolic(refs, sym.source, sym.target, sym.force) IN
       /\ refs' = w.refs
       /\ ret' = IF w.err = "none" THEN "Ok" ELSE w.err
    /\ pc' = "done"
    /\ UNCHANGED <<reflogs, sym, before, nameVars, iterVars>>

(***************************************************************************)
(* Reference::create.  sym holds the call: source is the rendered name,    *)
(* target the object id, force the flag.                                   *)
(***************************************************************************)
\* reference.create(repo, target, force, log_message) is called:
\* let name = self.to_string();
RefCreateCall(r, target, force) ==
    /\ pc = "idle"
    /\ sym' = [source |-> RefLike_from_Reference(r).val,
               target |-> target,
               force |-> force]
    /\ before' = [refs |-> refs, reflogs |-> reflogs]
    /\ calls' = <<>>
    /\ pc' = "create_ensure_log"
    /\ UNCHANGED <<refs, reflogs, ret, nameVars, iterVars>>

\* As RefCreateEnsureLog, but going on to the write where the engine fails.
RefCreateEnsureLog_NoReturn ==
    /\ pc = "create_ensure_log"
    /\ calls' = Append(calls, <<"reference_ensure_log", sym.source>>)
    /\ \E fails \in BOOLEAN :
          IF fails THEN UNCHANGED reflogs
          ELSE reflogs' = reflogs \cup {sym.source}
    /\ pc' = "create_write"
    /\ UNCHANGED <<refs, sym, before, ret, nameVars, iterVars>>

\* repo.reference_ensure_log(&name)?;  the engine may fail.
RefCreateEnsureLog ==
    /\ pc = "create_ensure_log"
    /\ calls' = Append(calls, <<"reference_ensure_log", sym.source>>)
    /\ \E fails \in BOOLEAN :
          IF fails THEN pc' = "done" /\ ret' = "Other" /\ UNCHANGED reflogs
          ELSE pc' = "create_write" /\ reflogs' = reflogs \cup {sym.source}
               /\ UNCHANGED ret
    /\ UNCHANGED <<refs, sym, before, nameVars, iterVars>>

\* repo.reference(&name, target, force.as_bool(), log_message)
RefCreateWrite ==
    /\ pc = "create_write"
    /\ calls' = Append(calls, <<"reference", sym.source>>)
    /\ LET w == reference(refs, sym.source, sym.target, sym.force) IN
       /\ refs' = w.refs
       /\ ret' = IF w.err = "none" THEN "Ok" ELSE w.err
    /\ pc' = "done"
    /\ UNCHANGED <<reflogs, sym, before, nameVars, iterVars>>

CreateNext ==
    \/ \E r \in RepoReferences, target \in Oids, force \in BOOLEAN :
          RefCreateCall(r, target, force)
    \/ RefCreateEnsureLog
    \/ RefCreateWrite

RepoNext ==
    \/ \E source \in RepoReferences, target \in RepoReferences, force \in BOOLEAN :
          SymCreateCall(source, target, force)
    \/ SymCreateResolve
    \/ SymCreateEnsureLog
    \/ SymCreateWrite

\* Another writer of the repository deletes the reference name while create
\* is under way; the engine's log of calls shows it.  One deletion is
\* enough for what a call can meet between its check and its write.
ConcurrentDelete(name) ==
    /\ pc \in {"resolve", "ensure_log", "write"}
    /\ refs[name] # Absent
    /\ \A i \in 1..Len(calls) : calls[i][1] # "delete"
    /\ refs' = [refs EXCEPT ![name] = Absent]
    /\ calls' = Append(calls, <<"delete", name>>)
    /\ UNCHANGED <<reflogs, pc, sym, before, ret, nameVars, iterVars>>

\* SymbolicRef::create with a concurrent writer.
RaceNext ==
    \/ \E source \in RepoReferences, target \in RepoReferences, force \in BOOLEAN :
          SymCreateCall(source, target, force)
    \/ SymCreateResolve
    \/ SymCreateEnsureLog
    \/ SymCreateWrite
    \/ \E name \in RepoNames : ConcurrentDelete(name)

(***************************************************************************)
(* The iterators Tags and Branches (radicle-surf, git/repo/iter.rs).       *)
(* references holds the git2::References pushed, each the sequence of the  *)
(* items it has yet to report; current is the cursor.  An item of the      *)
(* engine is a reference found, whose conversion to a Tag or a Branch      *)
(* succeeds or fails, or an error of the engine.  trace is the history of  *)
(* push and next, each with its argument or result and the cursor after    *)
(* it.                                                                     *)
(***************************************************************************)
Found(name) == [ok |-> TRUE, name |-> name, converts |-> TRUE]

Foreign(name) == [ok |-> TRUE, name |-> name, converts |-> FALSE]

GitError == [ok |-> FALSE, name |-> "", converts |-> FALSE]

\* The sequences of items the engine reports for a pattern.
EngineSequences ==
    { <<>>,
      <<Found("a")>>,
      <<GitError>>,
      <<Foreign("c"), Found("b")>>,
      <<Found("a"), GitError, Found("b")>> }

\* At most this many sequences are pushed.
MaxSequences == 2

\* At most this many calls of next are made.
MaxCalls == 5

\* res.map_err(error::Tag::from).and_then(|r| Tag::try_from(&r).map_err(..))
Tags_item(item) ==
    IF ~item.ok THEN Err("Git")
    ELSE IF item.converts THEN Ok(item.name) ELSE Err("Tag")

\* res.map_err(error::Branch::from).and_then(|r| Branch::try_from(&r).map_err(..))
Branches_item(item) ==
    IF ~item.ok THEN Err("Git")
    ELSE IF item.converts THEN Ok(item.name) ELSE Err("Branch")

\* As the loop of next, but ending at the first sequence that is exhausted.
Iterator_next_NoAdvance(refsq, cursor) ==
    IF cursor < Len(refsq) /\ refsq[cursor + 1] # <<>>
    THEN [references |-> [refsq EXCEPT ![cursor + 1] = Tail(@)],
          current |-> cursor,
          item |-> Some(Head(refsq[cursor + 1]))]
    ELSE [references |-> refsq, current |-> cursor, item |-> None]

\* The loop of next: while self.current < self.references.len(), the next
\* item of references[current] is returned, or current moves on where that
\* sequence is exhausted; None after the loop.
RECURSIVE Iterator_next(_, _)
Iterator_next(refsq, cursor) ==
    IF cursor < Len(refsq)
    THEN IF refsq[cursor + 1] # <<>>
         THEN [references |-> [refsq EXCEPT ![cursor + 1] = Tail(@)],
               current |-> cursor,
               item |-> Some(Head(refsq[cursor + 1]))]
         ELSE Iterator_next(refsq, cursor + 1)
    ELSE [references |-> refsq, current |-> cursor, item |-> None]

Event(op, arg, cursor) == [op |-> op, arg |-> arg, current |-> cursor]

\* The calls of next so far.
Calls == Len(SelectSeq(trace, LAMBDA e : e.op = "next"))

\* Tags::default(): no iterator is in use in the other specifications.
IterIdle ==
    /\ iterator = "Tags"
    /\ references = <<>>
    /\ current = 0
    /\ trace = <<>>

\* Tags::default() or Branches::default()
IterInit ==
    /\ iterator \in {"Tags", "Branches"}
    /\ references = <<>>
    /\ current = 0
    /\ trace = <<>>

\* Tags::push(references)
TagsPush(sequence) ==
    /\ iterator = "Tags"
    /\ Len(references) < MaxSequences
    /\ references' = Append(references, sequence)
    /\ trace' = Append(trace, Event("push", sequence, current))
    /\ UNCHANGED <<iterator, current, nameVars, repoVars>>

\* Branches::push(references)
BranchesPush(sequence) ==
    /\ iterator = "Branches"
    /\ Len(references) < MaxSequences
    /\ references' = Append(references, sequence)
    /\ trace' = Append(trace, Event("push", sequence, current))
    /\ UNCHANGED <<iterator, current, nameVars, repoVars>>

\* <Tags as Iterator>::next
TagsNext ==
    LET n == Iterator_next(references, current) IN
    /\ iterator = "Tags"
    /\ Calls < MaxCalls
    /\ references' = n.references
    /\ current' = n.current
    /\ trace' = Append(trace,
                       Event("next",
                             IF n.item = None THEN None ELSE Some(Tags_item(n.item[1])),
                             n.current))
    /\ UNCHANGED <<iterator, nameVars, repoVars>>

\* <Branches as Iterator>::next
BranchesNext ==
    LET n == Iterator_next(references, current) IN
    /\ iterator = "Branches"
    /\ Calls < MaxCalls
    /\ references' = n.references
    /\ current' = n.current
    /\ trace' = Append(trace,
                       Event("next",
                             IF n.item = None THEN None ELSE Some(Branches_item(n.item[1])),
                             n.current))
    /\ UNCHANGED <<iterator, nameVars, repoVars>>

IterNext ==
    \/ \E sequence \in EngineSequences : TagsPush(sequence)
    \/ \E sequence \in EngineSequences : BranchesPush(sequence)
    \/ TagsNext
    \/ BranchesNext

vars ==
    <<cur, other, res, ops, refs, reflogs, pc, sym, calls, before, ret,
      iterator, references, current, trace>>

Init == NameInit /\ RepoIdle /\ IterIdle

Next == NameNext

Spec == Init /\ [][Next]_vars

SpecInput == Init /\ [][InputNext]_vars

RepoSpecInit == NameInit /\ RepoInit /\ IterIdle

IterSpecInit == NameInit /\ RepoIdle /\ IterInit

SpecIter == IterSpecInit /\ [][IterNext]_vars

SpecRepo == RepoSpecInit /\ [][RepoNext]_vars

SpecCreate == RepoSpecInit /\ [][CreateNext]_vars

SpecRace == RepoSpecInit /\ [][RaceNext]_vars

(***************************************************************************)
(* What the claims speak of.                                               *)
(***************************************************************************)
\* The text passes RefLike's validated constructor.
IsValidRefLike(t) == RefLike_try_from(t).ok

\* The segments of a name.
Segments(t) == Split(t, "/")

\* An operation has left a value in res.
HasValue == res.op # "none" /\ res.err = "none"

\* The texts of the values of type ty the caller holds or has just got.
ValuesOf(ty) ==
    {v.text : v \in {w \in {cur, other} : w.ty = ty}}
        \cup (IF HasValue /\ res.ty = ty THEN {res.out} ELSE {})

\* Non-empty, no '*', no empty segment, no trailing '/'.
WellFormedName(t) ==
    /\ t # ""
    /\ CountChar(t, "*") = 0
    /\ \A k \in 1..Len(Segments(t)) : Segments(t)[k] # ""
    /\ ~EndsWith(t, "/")

(***************************************************************************)
(* C1: every RefLike value reachable through the public operations from    *)
(* validated inputs is non-empty, holds no '*', has no empty segment and   *)
(* does not end in '/'.                                                    *)
(***************************************************************************)
C1_RefLikeWellFormed == \A t \in ValuesOf("RefLike") : WellFormedName(t)

(***************************************************************************)
(* C2: OneLevel::from(r), r a valid RefLike, drops the first two segments  *)
(* when r starts with the text "refs/" and has at least three segments,    *)
(* and leaves the text unchanged in every other case.                      *)
(***************************************************************************)
C2_OneLevelFromRefLike ==
    (res.op = "one_level_from" /\ cur.ty = "RefLike" /\ IsValidRefLike(cur.text))
        => res.out = IF StartsWith(cur.text, "refs/") /\ Len(Segments(cur.text)) >= 3
                     THEN JoinWith(Skip(Segments(cur.text), 2), "/")
                     ELSE cur.text

(***************************************************************************)
(* C3: for a valid RefLike x, x.strip_prefix(x) fails with ImproperPrefix, *)
(* and x.strip_prefix(base) fails with NotPrefix for every base that is    *)
(* not a prefix of x ending at a segment boundary; neither yields a value. *)
(***************************************************************************)
\* base is a string prefix of x that ends where a segment of x ends.
SegmentAlignedPrefix(base, x) ==
    /\ base # ""
    /\ StartsWith(x, base)
    /\ \/ Len(base) = Len(x)
       \/ EndsWith(base, "/")
       \/ CharAt(x, Len(base) + 1) = "/"

C3_StripPrefixErrors ==
    (res.op = "strip_prefix" /\ IsValidRefLike(cur.text))
        => /\ res.args[1] = cur.text => (res.err = "ImproperPrefix" /\ res.out = "")
           /\ ~SegmentAlignedPrefix(res.args[1], cur.text)
                 => (res.err = "NotPrefix" /\ res.out = "")

(***************************************************************************)
(* C4: rendering a cardinality-one Reference, replacing its name by the    *)
(* rendered text and rendering again yields the same text.                 *)
(***************************************************************************)
\* The reference just rendered, with its name replaced by the rendered text.
Renested == Reference(res.args[1], res.args[2], res.args[3], res.out)

C4_RenderIdempotent ==
    (res.op = "render_one" /\ res.err = "none")
        => RefLike_from_Reference(Renested) = Ok(res.out)

\* C4 as amended: the same, for the references that have no namespace, no
\* remote and a category of one segment.
C4_RenderIdempotentUnscoped ==
    (/\ res.op = "render_one" /\ res.err = "none"
     /\ res.args[1] = None /\ res.args[2] = None
     /\ CountChar(RefsCategory_to_string(res.args[3]), "/") = 0)
        => RefLike_from_Reference(Renested) = Ok(res.out)

\* An unscoped reference whose name is itself qualified has been rendered.
C4_Witness ==
    /\ res.op = "render_one" /\ res.err = "none"
    /\ res.args[1] = None /\ res.args[2] = None
    /\ res.args[3] = Category("Heads")
    /\ cur.text = "refs/heads/next"
    /\ res.out = "refs/heads/next"

(***************************************************************************)
(* C5: for every valid RefLike r, OneLevel::from(Qualified::from(r))       *)
(* equals OneLevel::from(r).                                               *)
(***************************************************************************)
C5_OneLevelOfQualified ==
    (res.op = "qualified_from" /\ cur.ty = "RefLike" /\ IsValidRefLike(cur.text))
        => OneLevel_from_Qualified(res.out) = OneLevel_from_RefLike(cur.text)

\* An unqualified name has been qualified under refs/heads.
C5_Witness ==
    /\ res.op = "qualified_from" /\ cur.ty = "RefLike" /\ IsValidRefLike(cur.text)
    /\ ~StartsWith(cur.text, "refs/")
    /\ res.out = "refs/heads/" \o cur.text

(***************************************************************************)
(* C6: a cardinality-one Reference renders as "refs", then                 *)
(* "/namespaces/<ns>/refs" if it has a namespace, then "/remotes/<rm>" if  *)
(* it has a remote, then "/", the category's text, "/" and                 *)
(* OneLevel::from(name).                                                   *)
(***************************************************************************)
RenderedText(namespace, remote, category, name) ==
    "refs"
        \o (IF namespace # None THEN "/namespaces/" \o namespace[1] \o "/refs" ELSE "")
        \o (IF remote # None THEN "/remotes/" \o remote[1] ELSE "")
        \o "/" \o RefsCategory_to_string(category)
        \o "/" \o OneLevel_from_RefLike(name)

CallNames == [i \in 1..Len(calls) |-> calls[i][1]]

\* The target resolved in the repository as create found it.
TargetResolved == refname_to_id(before.refs, sym.target).ok

C7_TargetResolvedFirst ==
    /\ calls # <<>> => calls[1] = <<"refname_to_id", sym.target>>
    /\ (pc = "done" /\ ~TargetResolved)
          => /\ ret = refname_to_id(before.refs, sym.target).err
             /\ CallNames = <<"refname_to_id">>
             /\ refs = before.refs
             /\ reflogs = before.reflogs

\* create has returned NotFound for a target that is absent.
C7_Witness ==
    /\ pc = "done"
    /\ before.refs[sym.target] = Absent
    /\ ret = "NotFound"
    /\ CallNames = <<"refname_to_id">>

(***************************************************************************)
(* C8: where the target resolves, create without force never succeeds if   *)
(* the source exists, its write fails with Exists (AlreadyExists) and the  *)
(* source reference stays as it was; with force the write never fails      *)
(* with Exists, and once written the source is a symbolic reference to     *)
(* the target.                                                             *)
(***************************************************************************)
\* create has issued its write.
WriteIssued == Len(calls) = 3 /\ calls[3] = <<"reference_symbolic", sym.source>>

C9_AtMostOneStar ==
    /\ \A t \in ValuesOf("RefspecPattern") : CountChar(t, "*") <= 1
    /\ res.op = "pattern_try_from"
          => /\ CountChar(res.args[1], "*") >= 2 => res.err # "none"
             /\ (CountChar(res.args[1], "*") = 0 /\ IsValidRefLike(res.args[1]))
                   => (res.err = "none" /\ res.out = res.args[1])

\* A pattern with its '*' in the middle has come out of append.
C9_Witness ==
    /\ res.op = "append" /\ res.err = "none"
    /\ CountChar(cur.text, "*") = 1
    /\ CountChar(res.out, "*") = 1
    /\ ~EndsWith(res.out, "*")

(***************************************************************************)
(* C10: every RefLike value reachable through the public operations is at  *)
(* most as long as the validator's length limit.                           *)
(***************************************************************************)
C10_RefLikeWithinLimit == \A t \in ValuesOf("RefLike") : Len(t) <= NameLimit

(***************************************************************************)
(* C11: OneLevel::from_qualified(q) drops the leading "refs" segment of q; *)
(* where two or more segments remain it returns the segments after the     *)
(* first remaining one, joined by '/', and Some(first remaining segment);  *)
(* where one segment remains it returns that segment and None.             *)
(***************************************************************************)
\* The examples of the claim.
FromQualifiedExamples ==
    /\ OneLevel_from_qualified("refs/tags/grace")
          = [name |-> "grace", category |-> Some("tags")]
    /\ OneLevel_from_qualified("refs/remotes/origin/hopper")
          = [name |-> "origin/hopper", category |-> Some("remotes")]
    /\ OneLevel_from_qualified("refs/HEAD")
          = [name |-> "HEAD", category |-> None]

C11_FromQualified ==
    /\ res.op = "from_qualified"
          => LET remaining == Skip(Segments(cur.text), 1) IN
             /\ Len(remaining) >= 1
             /\ Len(remaining) >= 2
                   => /\ res.out = JoinWith(Skip(remaining, 1), "/")
                      /\ res.also = Some(remaining[1])
             /\ Len(remaining) = 1
                   => /\ res.out = remaining[1]
                      /\ res.also = None
    /\ FromQualifiedExamples

\* refs/HEAD, qualified, has been split into HEAD and no category.
C11_Witness ==
    /\ res.op = "from_qualified"
    /\ cur = Val("Qualified", "refs/HEAD")
    /\ res.out = "HEAD"
    /\ res.also = None

(***************************************************************************)
(* C12: n.into_qualified(c) is "refs/" + c + "/" + n, and it inverts       *)
(* from_qualified: for a Qualified q of three segments or more with        *)
(* from_qualified(q) = (n, Some(c)), n.into_qualified(c) has the text of q.*)
(***************************************************************************)
\* The example of the documentation.
IntoQualifiedExample ==
    OneLevel_into_qualified("origin/hopper", "remotes") = "refs/remotes/origin/hopper"

C12_IntoQualifiedInverts ==
    /\ res.op = "into_qualified"
          => res.out = "refs/" \o other.text \o "/" \o cur.text
    /\ (res.op = "from_qualified" /\ Len(Segments(cur.text)) >= 3)
          => /\ res.also # None
             /\ OneLevel_into_qualified(res.out, res.also[1]) = cur.text
    /\ IntoQualifiedExample

\* A qualified name of four segments has been split into name and category.
C12_Witness ==
    /\ res.op = "from_qualified"
    /\ cur = Val("Qualified", "refs/remotes/origin/it")
    /\ res.out = "origin/it"
    /\ res.also = Some("remotes")

(***************************************************************************)
(* C13: for valid RefLike values b and s, b.join(s).strip_prefix(b)        *)
(* succeeds and yields s.                                                  *)
(***************************************************************************)
C13_JoinStripRoundTrip ==
    (/\ res.op = "join" /\ other.ty = "RefLike"
     /\ IsValidRefLike(cur.text) /\ IsValidRefLike(other.text))
        => RefLike_strip_prefix(res.out, cur.text) = Ok(other.text)

\* Two valid names of several segments each have been joined.
C13_Witness ==
    /\ res.op = "join" /\ other.ty = "RefLike"
    /\ IsValidRefLike(cur.text) /\ IsValidRefLike(other.text)
    /\ Len(Segments(cur.text)) >= 2 /\ Len(Segments(other.text)) >= 2
    /\ cur.text # other.text
    /\ RefLike_strip_prefix(res.out, cur.text) = Ok(other.text)

(***************************************************************************)
(* C14: Qualified::from(r), r a valid RefLike, keeps a text that starts    *)
(* with "refs/" and prefixes any other text with "refs/heads/"; every      *)
(* Qualified value, whichever conversion produced it, starts with "refs/". *)
(***************************************************************************)
\* The examples of the claim.
QualifiedFromExamples ==
    /\ Qualified_from_RefLike("laplace") = "refs/heads/laplace"
    /\ Qualified_from_RefLike("refs/heads/pu") = "refs/heads/pu"
    /\ Qualified_from_RefLike("refs/tags/v6.6.6") = "refs/tags/v6.6.6"

C14_QualifiedStartsWithRefs ==
    /\ \A t \in ValuesOf("Qualified") : StartsWith(t, "refs/")
    /\ (res.op = "qualified_from" /\ cur.ty = "RefLike" /\ IsValidRefLike(cur.text))
          => res.out = IF StartsWith(cur.text, "refs/") THEN cur.text
                       ELSE "refs/heads/" \o cur.text
    /\ QualifiedFromExamples

\* A OneLevel value has been qualified under refs/heads.
C14_Witness ==
    /\ res.op = "qualified_from" /\ cur.ty = "OneLevel"
    /\ ~StartsWith(cur.text, "refs/")
    /\ res.out = "refs/heads/" \o cur.text

(***************************************************************************)
(* C15: a cardinality-many Reference renders as the scoping prefix of the  *)
(* cardinality-one rendering ("refs", "/namespaces/<ns>/refs" if it has a  *)
(* namespace, "/remotes/<rm>" if it has a remote, "/" and the category),   *)
(* then "/" and the pattern name as it is, with as many '*' as the name;   *)
(* Reference::heads renders                                                *)
(* refs[/namespaces/<ns>/refs][/remotes/<rm>]/heads/*.                     *)
(***************************************************************************)
ScopeText(namespace, remote, category) ==
    "refs"
        \o (IF namespace # None THEN "/namespaces/" \o namespace[1] \o "/refs" ELSE "")
        \o (IF remote # None THEN "/remotes/" \o remote[1] ELSE "")
        \o "/" \o RefsCategory_to_string(category)

CategoryLiterals ==
    [heads |-> "Heads", rad |-> "Rad", tags |-> "Tags", notes |-> "Notes",
     cobs |-> "Cobs"]

C16_CategoryRoundTrip ==
    /\ res.op = "category_from_str"
          => LET s == res.args[1] IN
             /\ s \in DOMAIN CategoryLiterals
                   => (res.err = "none" /\ res.out = Category(CategoryLiterals[s]))
             /\ (res.err = "none" /\ res.out.kind # "Unknown")
                   => s \in DOMAIN CategoryLiterals
             /\ (s \notin DOMAIN CategoryLiterals /\ IsValidRefLike(s))
                   => (res.err = "none" /\ res.out = Unknown(s))
             /\ (s \notin DOMAIN CategoryLiterals /\ ~IsValidRefLike(s))
                   => (res.err = ref_format(TRUE, FALSE, s) /\ res.err # "none")
             /\ res.err = "none" => RefsCategory_to_string(res.out) = s
    /\ \A c \in ValuesOf("RefsCategory") :
          c.kind = "Unknown" => c.name \notin DOMAIN CategoryLiterals
    /\ (res.op = "category_to_string" /\ res.args[1].kind = "Unknown")
          => res.out = res.args[1].name

\* "cobs" has been parsed as Cobs and rendered as "cobs" again.
C16_Witness ==
    /\ res.op = "category_to_string"
    /\ res.args[1] = Category("Cobs")
    /\ res.out = "cobs"

(***************************************************************************)
(* C17: deserializing a text t as Qualified or as OneLevel validates t as  *)
(* a RefLike and converts it: a valid t gives Qualified::from(RefLike(t)), *)
(* so "x" becomes "refs/heads/x", and OneLevel::from(RefLike(t)), so       *)
(* "refs/heads/x" becomes "x"; a text that does not validate is rejected   *)
(* by both.                                                                *)
(***************************************************************************)
C17_DeserializeConverts ==
    /\ res.op = "deserialize_qualified"
          => LET t == res.args[1] IN
             /\ IsValidRefLike(t)
                   => (res.err = "none" /\ res.out = Qualified_from_RefLike(t))
             /\ ~IsValidRefLike(t) => (res.err # "none" /\ res.out = "")
             /\ t = "x" => res.out = "refs/heads/x"
             /\ t = "refs/heads/x" => res.out = "refs/heads/x"
    /\ res.op = "deserialize_one_level"
          => LET t == res.args[1] IN
             /\ IsValidRefLike(t)
                   => (res.err = "none" /\ res.out = OneLevel_from_RefLike(t))
             /\ ~IsValidRefLike(t) => (res.err # "none" /\ res.out = "")
             /\ t = "refs/heads/x" => res.out = "x"
             /\ t = "x" => res.out = "x"

\* The OneLevel spelling x has been deserialized as the Qualified
\* refs/heads/x.
C17_Witness ==
    /\ res.op = "deserialize_qualified"
    /\ res.args = <<"x">>
    /\ res.err = "none"
    /\ res.out = "refs/heads/x"

(***************************************************************************)
(* C18: RefLike::try_from(path) takes the normal components of the path,   *)
(* leaving out "." and "..", and validates them joined by '/': a/./b and   *)
(* a/../b give the name a/b and are not rejected.                          *)
(***************************************************************************)
C18_PathNormalComponents ==
    (res.op = "path_try_from" /\ res.args[3])
        => LET p == res.args[2]
               validated == RefLike_try_from(JoinWith(NormalComponents(p), "/"))
           IN  /\ res.err = validated.err
               /\ res.out = validated.val
               /\ p \in {"a/./b", "a/../b"} => (res.err = "none" /\ res.out = "a/b")

(***************************************************************************)
(* C19: Reference::create issues the reflog-ensure call and then the       *)
(* write, both with the rendered name; where the reflog-ensure call fails  *)
(* the write is never issued and the references stay as they were.         *)
(***************************************************************************)
\* The engine calls of a create that runs to its end.
CreateCalls ==
    << <<"reference_ensure_log", sym.source>>, <<"reference", sym.source>> >>

C19_EnsureLogBeforeWrite ==
    /\ Len(calls) <= 2
    /\ calls = SubSeq(CreateCalls, 1, Len(calls))
    /\ (pc = "done" /\ ret # "Other") => Len(calls) = 2
    /\ (pc = "done" /\ ret = "Other")
          => (CallNames = <<"reference_ensure_log">> /\ refs = before.refs)
    /\ (calls # <<>> /\ sym.source \notin reflogs)
          => /\ pc = "done" /\ ret = "Other"
             /\ CallNames = <<"reference_ensure_log">>
             /\ refs = before.refs

\* The reflog-ensure call has failed on a name that had neither reference
\* nor reflog, and create has returned its error.
C19_Witness ==
    /\ pc = "done" /\ ret = "Other"
    /\ calls = << <<"reference_ensure_log", sym.source>> >>
    /\ before.refs[sym.source] = Absent
    /\ sym.source \notin reflogs
    /\ refs[sym.source] = Absent

(***************************************************************************)
(* C20: the existence check of SymbolicRef::create and its write are two   *)
(* steps.  Where no other writer has acted, a create that succeeds leaves  *)
(* the source a symbolic reference to a target that exists; a create that  *)
(* succeeds with its target gone has had the target deleted between the    *)
(* check and the write, and such a run exists.                             *)
(***************************************************************************)
\* The positions in the log of calls at which name was deleted.
DeletedAt(name) == {i \in 1..Len(calls) : calls[i] = <<"delete", name>>}

\* No other writer has acted during the call.
Undisturbed == \A i \in 1..Len(calls) : calls[i][1] # "delete"

RECURSIVE Flatten(_)
Flatten(seqs) == IF seqs = <<>> THEN <<>> ELSE Head(seqs) \o Flatten(Tail(seqs))

\* The sequences pushed so far, in the order of the pushes.
Pushed ==
    LET pushes == SelectSeq(trace, LAMBDA e : e.op = "push") IN
    [i \in 1..Len(pushes) |-> pushes[i].arg]

\* The items next has returned so far, in the order of the calls.
Yielded ==
    LET some == SelectSeq(trace, LAMBDA e : e.op = "next" /\ e.arg # None) IN
    [i \in 1..Len(some) |-> some[i].arg[1]]

\* What the iterator makes of an item of the engine.
ItemOf(item) ==
    IF ~item.ok THEN Err("Git")
    ELSE IF item.converts THEN Ok(item.name)
    ELSE Err(IF iterator = "Tags" THEN "Tag" ELSE "Branch")

\* Every item pushed so far, converted, in the order it is due.
Due ==
    LET items == Flatten(Pushed) IN [i \in 1..Len(items) |-> ItemOf(items[i])]

C21_IterationOrder ==
    /\ Len(Yielded) <= Len(Due)
    /\ Yielded = SubSeq(Due, 1, Len(Yielded))
    /\ (trace # <<>> /\ trace[Len(trace)] = Event("next", None, current))
          => (Yielded = Due /\ current = Len(references))
    /\ current <= Len(references)
    /\ Len(references) = Len(Pushed)
    /\ \A i \in 1..Len(trace) :
          /\ trace[i].current >= (IF i = 1 THEN 0 ELSE trace[i - 1].current)
          /\ trace[i].current <= Len(SelectSeq(SubSeq(trace, 1, i), LAMBDA e : e.op = "push"))
    /\ trace # <<>> => current = trace[Len(trace)].current

\* Two sequences have been iterated to their end, an error item among the
\* items, and next has returned None.
C21_Witness ==
    /\ Len(Pushed) = 2
    /\ Pushed[1] # <<>> /\ Pushed[2] # <<>>
    /\ Len(Yielded) = Len(Due)
    /\ \E i \in 1..(Len(Yielded) - 1) : ~Yielded[i].ok
    /\ trace[Len(trace)] = Event("next", None, 2)

(***************************************************************************)
(* C22: for every Qualified q whose text starts with "refs/heads/",        *)
(* Qualified::from(OneLevel::from(q)) has the text of q, also where the    *)
(* part after "refs/heads/" starts with "refs/" itself.                    *)
(***************************************************************************)
C22_CollapseRequalify ==
    (/\ res.op = "one_level_from" /\ cur.ty = "Qualified"
     /\ StartsWith(cur.text, "refs/heads/"))
        => Qualified_from_OneLevel(res.out) = cur.text

(***************************************************************************)
(* C23: where SymbolicRef::create returns an error, whichever step it      *)
(* comes from, the references and the reflogs are as they were before the  *)
(* call.                                                                   *)
(***************************************************************************)
C23_FailedCreateChangesNothing ==
    (pc = "done" /\ ret # "Ok")
        => /\ refs = before.refs
           /\ reflogs = before.reflogs

=============================================================================
